---- MODULE Spec2Model ----
(***************************************************************************)
(* Serial link receivers of the flying-waste-bin repository.               *)
(*                                                                         *)
(* ESP32CamWiredDisplay (src/test_wired_display_simple.py): a reader       *)
(* thread tokenizes the serial byte stream into text lines, reassembles a  *)
(* JPEG frame from FRAME_START / CHUNK:n / FRAME_END and publishes it in   *)
(* current_frame.                                                          *)
(*                                                                         *)
(* ESP32CamWiredTester (src/test_esp32_wired_display.py): a reader thread  *)
(* queues the port's lines, the main loop reassembles the frame from them. *)
(*                                                                         *)
(* Bytes are one-character strings; a line is a sequence of bytes.  The    *)
(* serial port is a FIFO of bytes written by the camera (the sender); a    *)
(* read that does not find its bytes before the port's timeout returns     *)
(* what has arrived.                                                       *)
(***************************************************************************)
EXTENDS Integers, Sequences, FiniteSets, TLC

\* ------------------------------------------------------------------ bounds
\* Number of items (lines, chunks) the camera writes in one run.
MaxSend == 5
\* Number of those items that may come from the irregular menu.
MaxSpecial == 1
\* Number of lines the camera writes to the ESP32CamWiredTester in one run.
MaxTesterSend == 4
\* Cycles of the controller's loop that are counted.
MaxCycles == 12

\* ------------------------------------------------------------------- bytes
NL == "\n"
COLON == ":"
\* A byte that is no valid UTF-8 (0xFF).
XFF == "xFF"
Whitespace == {NL, "\r", " "}

\* bytes.decode('utf-8', errors='ignore'): invalid bytes are dropped.
DecodeIgnore(bs) == SelectSeq(bs, LAMBDA c : c # XFF)

RECURSIVE LStrip(_)
LStrip(s) == IF s # <<>> /\ Head(s) \in Whitespace THEN LStrip(Tail(s)) ELSE s

RECURSIVE RStrip(_)
RStrip(s) ==
  IF s # <<>> /\ s[Len(s)] \in Whitespace THEN RStrip(SubSeq(s, 1, Len(s) - 1)) ELSE s

\* str.strip()
Strip(s) == RStrip(LStrip(s))

\* str.startswith(prefix)
StartsWith(s, prefix) ==
  Len(s) >= Len(prefix) /\ SubSeq(s, 1, Len(prefix)) = prefix

\* str.split(sep): the fields between the separators, in order.
RECURSIVE Split(_, _)
Split(s, sep) ==
  IF \A k \in 1..Len(s) : s[k] # sep
  THEN <<s>>
  ELSE LET k == CHOOSE k \in 1..Len(s) : s[k] = sep /\ \A j \in 1..(k - 1) : s[j] # sep
       IN  <<SubSeq(s, 1, k - 1)>> \o Split(SubSeq(s, k + 1, Len(s)), sep)

Digits == {"0", "1", "2", "3", "4", "5", "6", "7", "8", "9"}
DigitVal(c) ==
  CASE c = "0" -> 0 [] c = "1" -> 1 [] c = "2" -> 2 [] c = "3" -> 3 [] c = "4" -> 4
    [] c = "5" -> 5 [] c = "6" -> 6 [] c = "7" -> 7 [] c = "8" -> 8 [] c = "9" -> 9

RECURSIVE DecVal(_)
DecVal(ds) == IF ds = <<>> THEN 0 ELSE 10 * DecVal(SubSeq(ds, 1, Len(ds) - 1)) + DigitVal(ds[Len(ds)])

\* int(text): optional sign, then one or more decimal digits; anything else
\* raises ValueError (ok = FALSE).
ParseInt(text) ==
  LET t == Strip(text)
      neg == t # <<>> /\ Head(t) = "-"
      ds == IF t # <<>> /\ Head(t) \in {"-", "+"} THEN Tail(t) ELSE t
      ok == ds # <<>> /\ \A k \in 1..Len(ds) : ds[k] \in Digits
  IN  [ok |-> ok, v |-> IF ok THEN (IF neg THEN 0 - DecVal(ds) ELSE DecVal(ds)) ELSE 0]

\* parts[k] of a Python list (0-based): IndexError when k is out of range,
\* ValueError when the field is no integer.
IntField(parts, k) ==
  IF k + 1 > Len(parts) THEN [ok |-> FALSE, v |-> 0] ELSE ParseInt(parts[k + 1])

\* --------------------------------------------------------- protocol words
W_CAMERA_READY == <<"C", "A", "M", "E", "R", "A", "_", "R", "E", "A", "D", "Y">>
W_FRAME_START == <<"F", "R", "A", "M", "E", "_", "S", "T", "A", "R", "T", ":">>
W_CHUNK == <<"C", "H", "U", "N", "K", ":">>
W_FRAME_END == <<"F", "R", "A", "M", "E", "_", "E", "N", "D">>
W_ERROR == <<"E", "R", "R", "O", "R", ":">>
W_OBJECT_DETECTED == <<"O", "B", "J", "E", "C", "T", "_", "D", "E", "T", "E", "C", "T", "E", "D", ":">>
W_NO_OBJECT == <<"N", "O", "_", "O", "B", "J", "E", "C", "T">>

\* ------------------------------------------------------- what the camera sends
\* One item the camera writes to the port.  bytes: the item on the wire;
\* lo..hi: the positions of bytes that are chunk payload; conf: the item follows
\* the wire format (a text line ends with a newline, CHUNK:n is followed by
\* exactly n payload bytes and one newline); cut: when positive, the item
\* arrives in two parts, the first holding cut bytes; size, w, h: the header
\* fields a FRAME_START carries; payload: the chunk's payload bytes.
Item(id, kind, bytes, lo, hi, conf, special, cut, size, w, h) ==
  [id |-> id, kind |-> kind, bytes |-> bytes, lo |-> lo, hi |-> hi, conf |-> conf,
   special |-> special, cut |-> cut, size |-> size, w |-> w, h |-> h]

LineItem(id, kind, body, special) ==
  Item(id, kind, body \o <<NL>>, 1, 0, TRUE, special, 0, 0, 0, 0)

HeaderItem(id, kind, fields, special, size, w, h) ==
  Item(id, kind, W_FRAME_START \o fields \o <<NL>>, 1, 0, TRUE, special, 0, size, w, h)

ChunkItem(id, kind, n, payload, term, conf, special, cut) ==
  LET hdr == W_CHUNK \o n \o <<NL>>
  IN  Item(id, kind, hdr \o payload \o term, Len(hdr) + 1, Len(hdr) + Len(payload),
           conf, special, cut, 0, 0, 0)

Payload(it) == SubSeq(it.bytes, it.lo, it.hi)

\* The regular menu: a valid header, an honest chunk whose payload holds a
\* newline, the frame end.
RegularItems ==
  { HeaderItem("fs2", "header", <<"2", ":", "3", ":", "2">>, FALSE, 2, 3, 2),
    ChunkItem("ch_na", "chunk", <<"2">>, <<NL, "a">>, <<NL>>, TRUE, FALSE, 0),
    LineItem("fe", "end", W_FRAME_END, FALSE) }

\* The irregular menu: a second valid header, a header whose width is no
\* integer, a header that declares no bytes, a payload that spells a control
\* line, a chunk without its terminator.
SpecialItems ==
  { HeaderItem("fs4", "header", <<"4", ":", "6", ":", "5">>, TRUE, 4, 6, 5),
    HeaderItem("fs_badw", "fault", <<"3", ":", "x", ":", "2">>, TRUE, 3, 0, 2),
    HeaderItem("fs_zero", "fault", <<"0", ":", "3", ":", "2">>, TRUE, 0, 3, 2),
    ChunkItem("ch_fe", "chunk", <<"1", "0">>, W_FRAME_END \o <<NL>>, <<NL>>, TRUE, TRUE, 0),
    ChunkItem("ch_noterm", "broken", <<"1">>, <<"a">>, <<>>, FALSE, TRUE, 0) }

\* More irregular items: other malformed headers, a malformed chunk line, a
\* chunk that arrives in two parts (the first ends inside the payload).
FaultItems ==
  { HeaderItem("fs_neg", "fault", <<"-", "1", ":", "3", ":", "2">>, TRUE, 0 - 1, 3, 2),
    HeaderItem("fs_few", "fault", <<"3">>, TRUE, 3, 0, 0),
    HeaderItem("fs_bads", "fault", <<"x", ":", "3", ":", "2">>, TRUE, 0, 3, 2),
    LineItem("ch_bad", "fault", W_CHUNK \o <<"x">>, TRUE),
    ChunkItem("ch_slow", "chunk", <<"2">>, <<"b", "c">>, <<NL>>, TRUE, TRUE, Len(W_CHUNK) + 3) }

\* Lines that have nothing to do with framing: the two status lines the
\* display knows, the two detection lines of the other firmware, and a line
\* of no known kind.
StatusItems ==
  { LineItem("st_ready", "status", W_CAMERA_READY, TRUE),
    LineItem("st_error", "status", W_ERROR \o <<"x">>, TRUE),
    LineItem("st_object", "status",
             W_OBJECT_DETECTED \o <<"9", ":", "2", ":", "3", ":", "4", ":", "5">>, TRUE),
    LineItem("st_none", "status", W_NO_OBJECT, TRUE),
    LineItem("st_word", "status", <<"h", "i">>, TRUE) }

\* A chunk whose two payload bytes are neither text nor newline.
BinaryItems == { ChunkItem("ch_bin", "chunk", <<"2">>, <<XFF, XFF>>, <<NL>>, TRUE, FALSE, 0) }

Items == RegularItems \cup SpecialItems
AllItems == Items \cup FaultItems
KnownItems == AllItems \cup StatusItems \cup BinaryItems
ItemTable == [id \in {it.id : it \in KnownItems} |-> CHOOSE it \in KnownItems : it.id = id]
ItemOf(id) == ItemTable[id]

\* The unread bytes by origin: one segment per item with unread bytes, in wire
\* order: i the item's index, it its id, done the bytes of it already read,
\* left the bytes of it still to read.
Segment(i, id) == [i |-> i, it |-> id, done |-> 0, left |-> Len(ItemOf(id).bytes)]

\* The segments after k more bytes are read.
RECURSIVE SegDrop(_, _)
SegDrop(sg, k) ==
  IF k = 0 \/ sg = <<>> THEN sg
  ELSE IF k >= Head(sg).left THEN SegDrop(Tail(sg), k - Head(sg).left)
  ELSE <<[Head(sg) EXCEPT !.done = @ + k, !.left = @ - k]>> \o Tail(sg)

\* The item index of the k-th unread byte (k >= 1).
RECURSIVE SegItem(_, _)
SegItem(sg, k) ==
  IF k <= Head(sg).left THEN Head(sg).i ELSE SegItem(Tail(sg), k - Head(sg).left)

\* Whether one of the first k unread bytes is chunk payload.
RECURSIVE SegPayload(_, _)
SegPayload(sg, k) ==
  IF k = 0 \/ sg = <<>> THEN FALSE
  ELSE LET h == Head(sg)
           m == IF k <= h.left THEN k ELSE h.left
           it == ItemOf(h.it)
       IN  \/ (h.done + 1 <= it.hi /\ it.lo <= h.done + m)
           \/ SegPayload(Tail(sg), k - m)

\* ---------------------------------------------------------------- state
VARIABLES
  \* ESP32CamWiredDisplay
  running,               \* self.running
  current_frame,         \* self.current_frame: the placeholder or a decoded image
  frame_count,           \* self.frame_count
  frame_buffer,          \* self.frame_buffer (bytes)
  receiving_frame,       \* self.receiving_frame
  expected_frame_size,   \* self.expected_frame_size
  frame_width,           \* self.frame_width
  frame_height,          \* self.frame_height
  stream,                \* bytes written by the camera and not yet read from the port
  pc,                    \* where the reader thread stands
  chunk_size,            \* local chunk_size of process_serial_line
  \* history, read by the properties only
  items,                 \* ids of the items the camera has written, in order
  pending,               \* the part of a two-part item that has not arrived yet
  short,                 \* some read returned on the port's timeout
  buf_src,               \* for each byte of frame_buffer: the frame it was read under
  epoch,                 \* number of FRAME_START lines that started a frame
  segs,                  \* the origin of the unread bytes
  tok,                   \* a chunk payload byte reached process_serial_line as text
  writes,                \* number of assignments to current_frame by the reader
  fe_log,                \* one record per FRAME_END line processed
  fs_log,                \* one record per FRAME_START: line processed
  ch_log,                \* one record per CHUNK:n line whose read was issued
  \* ESP32CamWiredTester only
  data_queue,            \* self.data_queue: <<type, data>> pairs, oldest first
  buffer,                \* local buffer of read_serial_data
  current_detection,     \* self.current_detection
  detection_count,       \* self.detection_count
  enq,                   \* history: every token the reader thread put in data_queue
  taken,                 \* history: every token handed to process_data, in order
  dropped,               \* history: a non-text segment was discarded after its FRAME_START was queued
  \* MotionDetectionController only
  last_command,          \* local last_command of the run loop
  command_delay,         \* local command_delay of the run loop
  looping,               \* the run loop has not left its while True
  cycles,                \* history: number of cycles run, up to MaxCycles
  forwards,              \* history: number of commands forwarded, up to MaxCycles
  allsame,               \* history: every cycle so far produced the same command
  since,                 \* history: cycles run since the last forward
  seen,                  \* history: what the last cycle saw and did
  \* ESP32CamWiredDisplay, the rest of its threads' locals
  display_frame,         \* what the display loop last read from self.current_frame
  held_line,             \* local line of read_serial_data, read and not yet processed
  \* the line-oriented testers
  processed,             \* history: the lines handed to process_data, in order
  last_detection,        \* ESP32CamTester: self.last_detection
  detection_history,     \* ESP32CamTester: self.detection_history
  arduino,               \* MotionDetectionController: self.arduino ("None", "open", "closed")
  arduino_tx             \* history: the last pass through send_command_to_arduino

dvars == <<running, current_frame, frame_count, frame_buffer, receiving_frame,
           expected_frame_size, frame_width, frame_height, stream, pc, chunk_size>>
hvars == <<items, pending, short, buf_src, epoch, segs, tok, writes, fe_log, fs_log, ch_log>>
thist == <<enq, taken, dropped>>
tonly == <<data_queue, buffer, current_detection, detection_count, thist>>
conly == <<last_command, command_delay, looping, cycles, forwards, allsame, since, seen,
           arduino, arduino_tx>>
lonly == <<display_frame, held_line>>
qonly == <<processed, last_detection, detection_history>>
elsewhere == <<tonly, conly, lonly, qonly>>
vars == <<dvars, hvars, tonly, conly, lonly, qonly>>

NoFrame == [kind |-> "none", data |-> <<>>]
NoDetection == [zone |-> "none"]
Placeholder == [kind |-> "placeholder", data |-> <<>>]
Image(buf) == [kind |-> "image", data |-> buf]

\* No call of send_command_to_arduino in the last step.
NoTx == [called |-> FALSE, from |-> "", command |-> "", open |-> FALSE,
         bytes |-> <<>>, error |-> FALSE]
\* MotionDetectionController before its run loop is entered.
NoCycle == [object |-> FALSE, x |-> 0, w |-> 0, command |-> "",
            last0 |-> "", delay0 |-> 0, sent |-> FALSE, tx0 |-> NoTx]
ControllerIdle ==
  /\ arduino = "None"
  /\ arduino_tx = NoTx
  /\ last_command = ""
  /\ command_delay = 0
  /\ looping = FALSE
  /\ cycles = 0
  /\ forwards = 0
  /\ allsame = TRUE
  /\ since = 0
  /\ seen = NoCycle

\* The locals of the display's two threads before either has run.
NoLine == [text |-> <<>>, tag |-> 0]
LocalsUnset ==
  /\ display_frame = NoFrame
  /\ held_line = NoLine
  /\ processed = <<>>
  /\ last_detection = NoDetection
  /\ detection_history = <<>>

\* Nothing has gone through the tester's queue yet.
HandoffEmpty ==
  /\ enq = <<>>
  /\ taken = <<>>
  /\ dropped = FALSE

\* __init__ and create_placeholder_frame.
Init ==
  /\ running = FALSE
  /\ current_frame = Placeholder
  /\ frame_count = 0
  /\ frame_buffer = <<>>
  /\ receiving_frame = FALSE
  /\ expected_frame_size = 0
  /\ frame_width = 0
  /\ frame_height = 0
  /\ stream = <<>>
  /\ pc = "init"
  /\ chunk_size = 0
  /\ items = <<>>
  /\ pending = <<>>
  /\ short = FALSE
  /\ buf_src = <<>>
  /\ epoch = 0
  /\ segs = <<>>
  /\ tok = FALSE
  /\ writes = 0
  /\ fe_log = <<>>
  /\ fs_log = <<>>
  /\ ch_log = <<>>
  /\ data_queue = <<>>
  /\ buffer = <<>>
  /\ current_detection = NoDetection
  /\ detection_count = 0
  /\ ControllerIdle
  /\ LocalsUnset
  /\ HandoffEmpty

\* ------------------------------------------------------------- the camera
NSpecial == Cardinality({k \in 1..Len(items) : ItemOf(items[k]).special})

\* The camera writes one item; a two-part item leaves its second part pending.
Send(it) ==
  /\ running
  /\ pending = <<>>
  /\ Len(items) < MaxSend
  /\ it.special => NSpecial < MaxSpecial
  /\ LET w == it.bytes
         first == IF it.cut > 0 THEN it.cut ELSE Len(w)
     IN  /\ stream' = stream \o SubSeq(w, 1, first)
         /\ pending' = SubSeq(w, first + 1, Len(w))
  /\ items' = Append(items, it.id)
  /\ segs' = Append(segs, Segment(Len(items) + 1, it.id))
  /\ UNCHANGED <<running, current_frame, frame_count, frame_buffer, receiving_frame,
                 expected_frame_size, frame_width, frame_height, pc, chunk_size,
                 short, buf_src, epoch, tok, writes, fe_log, fs_log, ch_log>>
  /\ UNCHANGED elsewhere

\* The second part of a two-part item arrives.
SendRest ==
  /\ running
  /\ pending # <<>>
  /\ stream' = stream \o pending
  /\ pending' = <<>>
  /\ UNCHANGED <<running, current_frame, frame_count, frame_buffer, receiving_frame,
                 expected_frame_size, frame_width, frame_height, pc, chunk_size,
                 items, short, buf_src, epoch, segs, tok, writes, fe_log, fs_log, ch_log>>
  /\ UNCHANGED elsewhere

\* ------------------------------------------------------- the serial port
\* serial.readline(): the number of bytes it returns when bs are the bytes that
\* arrive before the timeout: through the first newline, or everything.
ReadLineLen(bs) ==
  LET nls == {k \in 1..Len(bs) : bs[k] = NL}
  IN  IF nls = {} THEN Len(bs) ELSE CHOOSE k \in nls : \A j \in nls : k <= j

\* serial.read(n): the number of bytes it returns when avail bytes arrive
\* before the timeout.
ReadLen(n, avail) == IF n <= 0 THEN 0 ELSE IF n <= avail THEN n ELSE avail

\* ------------------------------------------------- process_serial_line
\* The branch of process_serial_line a line takes.
LineKindErrorEnds(line) ==
  IF line = W_CAMERA_READY THEN "CAMERA_READY"
  ELSE IF StartsWith(line, W_FRAME_START) THEN "FRAME_START"
  ELSE IF StartsWith(line, W_CHUNK) THEN "CHUNK"
  ELSE IF line = W_FRAME_END \/ StartsWith(line, W_ERROR) THEN "FRAME_END"
  ELSE "OTHER"
LineKind(line) ==
  IF line = W_CAMERA_READY THEN "CAMERA_READY"
  ELSE IF StartsWith(line, W_FRAME_START) THEN "FRAME_START"
  ELSE IF StartsWith(line, W_CHUNK) THEN "CHUNK"
  ELSE IF line = W_FRAME_END THEN "FRAME_END"
  ELSE IF StartsWith(line, W_ERROR) THEN "ERROR"
  ELSE "OTHER"

\* A header read as FRAME_START:width:height:size.
ParseHeaderWidthFirst(line) ==
  LET parts == Split(line, COLON)
  IN  [size |-> IntField(parts, 3), width |-> IntField(parts, 1), height |-> IntField(parts, 2)]

\* FRAME_START:size:width:height, the three int(parts[k]) in the order the
\* code evaluates them.
ParseHeader(line) ==
  LET parts == Split(line, COLON)
  IN  [size |-> IntField(parts, 1), width |-> IntField(parts, 2), height |-> IntField(parts, 3)]

\* The three assignments completed without IndexError or ValueError.
HeaderAccepted(hp) == hp.size.ok /\ hp.width.ok /\ hp.height.ok

\* A reset that keeps the accumulated bytes.
KeepFrameBuffer(buf) == buf

\* self.frame_buffer = bytearray()
NewFrameBuffer(buf) == <<>>

\* A chunk header whose size is not honoured: no payload byte is read.
ParseChunkAsEmpty(line) == [ok |-> TRUE, v |-> 0]

\* CHUNK:size, int(line.split(":")[1]).
ParseChunk(line) == IntField(Split(line, COLON), 1)

\* An append that stores the chunk back to front.
ExtendBufferReversed(buf, data) == buf \o [k \in 1..Len(data) |-> data[Len(data) + 1 - k]]

\* self.frame_buffer.extend(chunk_data)
ExtendBuffer(buf, data) == buf \o data

\* A size check that only rejects short buffers.
SizeTooSmall(buflen, expected) == buflen < expected
SizeNeverMismatch(buflen, expected) == FALSE

\* process_complete_frame: len(self.frame_buffer) != self.expected_frame_size
SizeMismatch(buflen, expected) == buflen # expected

\* cv2.imdecode on the buffer: TRUE an image, FALSE None or an exception (an
\* empty buffer always raises); which non-empty buffers decode is not fixed here.
DecodeOutcomes(buf) == IF buf = <<>> THEN {FALSE} ELSE BOOLEAN

\* elif line.startswith("FRAME_START:"); itag is the item the line came from.
OnFrameStart(line, itag) ==
  \E hp \in {ParseHeader(line)} :
    LET okS == hp.size.ok
        okW == okS /\ hp.width.ok
        okH == okW /\ hp.height.ok
    IN  /\ expected_frame_size' = IF okS THEN hp.size.v ELSE expected_frame_size
        /\ frame_width' = IF okW THEN hp.width.v ELSE frame_width
        /\ frame_height' = IF okH THEN hp.height.v ELSE frame_height
        /\ IF HeaderAccepted(hp)
           THEN /\ frame_buffer' = NewFrameBuffer(frame_buffer)
                /\ buf_src' = SubSeq(buf_src, 1, Len(frame_buffer'))
                /\ receiving_frame' = TRUE
                /\ epoch' = epoch + 1
           ELSE UNCHANGED <<frame_buffer, buf_src, receiving_frame, epoch>>
        /\ fs_log' = Append(fs_log,
             [i |-> itag, recv0 |-> receiving_frame, recv1 |-> receiving_frame',
              size0 |-> expected_frame_size, size1 |-> expected_frame_size',
              w0 |-> frame_width, w1 |-> frame_width',
              h0 |-> frame_height, h1 |-> frame_height',
              blen0 |-> Len(frame_buffer), blen1 |-> Len(frame_buffer'),
              same |-> (frame_buffer' = frame_buffer)])
        /\ UNCHANGED <<current_frame, frame_count, pc, chunk_size, writes, fe_log, ch_log>>

\* elif line.startswith("CHUNK:"), up to the blocking read.
OnChunk(line) ==
  \E n \in {ParseChunk(line)} :
    /\ IF n.ok
       THEN pc' = "chunk" /\ chunk_size' = n.v
       ELSE UNCHANGED <<pc, chunk_size>>
    /\ UNCHANGED <<current_frame, frame_count, frame_buffer, receiving_frame,
                   expected_frame_size, frame_width, frame_height,
                   buf_src, epoch, writes, fe_log, fs_log, ch_log>>

\* elif line == "FRAME_END", with process_complete_frame; itag is the item the
\* line came from.
\* process_complete_frame: "if frame is not None: self.current_frame = frame".
FrameAssignedAnyway(ok, buf, cf) == Image(buf)
FrameAfterDecode(ok, buf, cf) == IF ok THEN Image(buf) ELSE cf

\* "if self.receiving_frame: self.process_complete_frame()", which returns
\* early on a size mismatch: whether the buffer reaches the decoder.
FrameEndCallsAlways(recv, mismatch) == ~mismatch
FrameEndCalls(recv, mismatch) == recv /\ ~mismatch

OnFrameEnd(itag) ==
  LET mismatch == SizeMismatch(Len(frame_buffer), expected_frame_size)
      called == FrameEndCalls(receiving_frame, mismatch)
  IN  \E ok \in (IF called THEN DecodeOutcomes(frame_buffer) ELSE {FALSE}) :
        /\ current_frame' = FrameAfterDecode(ok, frame_buffer, current_frame)
        /\ frame_count' = IF ok THEN frame_count + 1 ELSE frame_count
        /\ writes' = IF ok THEN writes + 1 ELSE writes
        /\ receiving_frame' = FALSE
        /\ fe_log' = Append(fe_log,
             [i |-> itag, recv |-> receiving_frame, blen |-> Len(frame_buffer),
              size |-> expected_frame_size, called |-> called, ok |-> ok,
              buf |-> IF called THEN frame_buffer ELSE <<>>,
              pure |-> \A k \in 1..Len(buf_src) : buf_src[k] = epoch,
              recv1 |-> receiving_frame',
              fc0 |-> frame_count, fc1 |-> frame_count',
              w0 |-> writes, w1 |-> writes',
              cf0 |-> current_frame, cf1 |-> current_frame'])
        /\ UNCHANGED <<frame_buffer, expected_frame_size, frame_width, frame_height,
                       pc, chunk_size, buf_src, epoch, fs_log, ch_log>>

process_serial_line(line, itag) ==
  \E kind \in {LineKind(line)} :
    CASE kind = "FRAME_START" -> OnFrameStart(line, itag)
      [] kind = "CHUNK" -> OnChunk(line)
      [] kind = "FRAME_END" -> OnFrameEnd(itag)
      [] OTHER -> UNCHANGED <<current_frame, frame_count, frame_buffer, receiving_frame,
                              expected_frame_size, frame_width, frame_height, pc,
                              chunk_size, buf_src, epoch, writes, fe_log, fs_log, ch_log>>

\* ------------------------------------------------------ the reader thread
\* One pass of read_serial_data's loop: readline, decode, strip, dispatch.
ReadLine ==
  /\ pc = "line"
  /\ running
  /\ stream # <<>>
  /\ \E k \in {ReadLineLen(stream)} :
     \E line \in {Strip(DecodeIgnore(SubSeq(stream, 1, k)))} :
       /\ stream' = SubSeq(stream, k + 1, Len(stream))
       /\ segs' = SegDrop(segs, k)
       /\ short' = (short \/ stream[k] # NL)
       /\ tok' = (tok \/ (line # <<>> /\ SegPayload(segs, k)))
       /\ IF line # <<>>
          THEN process_serial_line(line, SegItem(segs, k))
          ELSE UNCHANGED <<current_frame, frame_count, frame_buffer, receiving_frame,
                           expected_frame_size, frame_width, frame_height, pc,
                           chunk_size, buf_src, epoch, writes, fe_log, fs_log, ch_log>>
  /\ UNCHANGED <<running, items, pending>>
  /\ UNCHANGED elsewhere

\* chunk_data = self.serial_connection.read(chunk_size); frame_buffer.extend
ChunkRead ==
  /\ pc = "chunk"
  /\ running
  /\ \E k \in {ReadLen(chunk_size, Len(stream))} :
       /\ stream' = SubSeq(stream, k + 1, Len(stream))
       /\ segs' = SegDrop(segs, k)
       /\ frame_buffer' = ExtendBuffer(frame_buffer, SubSeq(stream, 1, k))
       /\ buf_src' = buf_src \o [j \in 1..k |-> IF receiving_frame THEN epoch ELSE 0]
       /\ short' = (short \/ k < chunk_size)
       /\ ch_log' = Append(ch_log,
            [n |-> chunk_size, got |-> k, term |-> 0 - 1,
             there |-> (chunk_size >= 0 /\ Len(stream) > chunk_size)])
  /\ pc' = "term"
  /\ UNCHANGED <<running, current_frame, frame_count, receiving_frame,
                 expected_frame_size, frame_width, frame_height, chunk_size,
                 items, pending, epoch, tok, writes, fe_log, fs_log>>
  /\ UNCHANGED elsewhere

\* self.serial_connection.readline(): the end-of-chunk newline.
ChunkTerm ==
  /\ pc = "term"
  /\ running
  /\ \E k \in {ReadLineLen(stream)} :
       /\ stream' = SubSeq(stream, k + 1, Len(stream))
       /\ segs' = SegDrop(segs, k)
       /\ short' = (short \/ k = 0 \/ stream[k] # NL)
       /\ ch_log' = [ch_log EXCEPT ![Len(ch_log)].term = k]
  /\ pc' = "line"
  /\ UNCHANGED <<running, current_frame, frame_count, frame_buffer, receiving_frame,
                 expected_frame_size, frame_width, frame_height, chunk_size,
                 items, pending, buf_src, epoch, tok, writes, fe_log, fs_log>>
  /\ UNCHANGED elsewhere

\* The loop ends: running is false, or a read on the closed port raised.
ReaderExit ==
  /\ pc \in {"line", "chunk", "term"}
  /\ ~running
  /\ pc' = "done"
  /\ UNCHANGED <<running, current_frame, frame_count, frame_buffer, receiving_frame,
                 expected_frame_size, frame_width, frame_height, stream, chunk_size, hvars>>
  /\ UNCHANGED elsewhere

\* -------------------------------------------------------- the main thread
\* run_display: connect (flushInput), running = True, start the reader thread.
RunDisplay ==
  /\ pc = "init"
  /\ running' = TRUE
  /\ stream' = <<>>
  /\ pc' = "line"
  /\ UNCHANGED <<current_frame, frame_count, frame_buffer, receiving_frame,
                 expected_frame_size, frame_width, frame_height, chunk_size, hvars>>
  /\ UNCHANGED elsewhere

\* disconnect: running = False and the port is closed.
Disconnect ==
  /\ running
  /\ running' = FALSE
  /\ UNCHANGED <<current_frame, frame_count, frame_buffer, receiving_frame,
                 expected_frame_size, frame_width, frame_height, stream, pc,
                 chunk_size, hvars>>
  /\ UNCHANGED elsewhere

\* The display fed from the regular menu and the first irregular one, whose
\* items arrive whole.
Next ==
  \/ RunDisplay
  \/ \E it \in Items : Send(it)
  \/ ReadLine
  \/ ChunkRead
  \/ ChunkTerm

Spec == Init /\ [][Next]_vars

\* The same display fed from every menu, two-part items included.
NextFaults ==
  \/ RunDisplay
  \/ \E it \in AllItems : Send(it)
  \/ SendRest
  \/ ReadLine
  \/ ChunkRead
  \/ ChunkTerm

SpecFaults == Init /\ [][NextFaults]_vars

\* ---------------------------------------------------- the display loop
\* run_display, lines 269-274: one pass of "while self.running" takes
\* self.current_frame.copy() as the frame to show.
DisplayLoop ==
  /\ pc # "init"
  /\ running
  /\ display_frame' = current_frame
  /\ UNCHANGED <<dvars, hvars, tonly, conly, held_line, qonly>>

\* The display's two threads: the reader fed a header of two bytes, a header
\* of four, chunks and FRAME_END, and the display loop reading current_frame
\* at any moment in between.
LoopItems == RegularItems \cup {it \in SpecialItems : it.id = "fs4"}
NextLoop ==
  \/ RunDisplay
  \/ \E it \in LoopItems : Send(it)
  \/ ReadLine
  \/ ChunkRead
  \/ ChunkTerm
  \/ DisplayLoop

SpecLoop == Init /\ [][NextLoop]_vars

\* ------------------------------------------------------------ disconnect
\* The reader thread's pass of lines 119-121 in its two steps, so that the
\* main thread's disconnect can fall between them: readline() returns a line,
\* then "if line: self.process_serial_line(line)".
TakeLine ==
  /\ pc = "line"
  /\ running
  /\ held_line = NoLine
  /\ stream # <<>>
  /\ \E k \in {ReadLineLen(stream)} :
     \E text \in {Strip(DecodeIgnore(SubSeq(stream, 1, k)))} :
       /\ stream' = SubSeq(stream, k + 1, Len(stream))
       /\ segs' = SegDrop(segs, k)
       /\ short' = (short \/ stream[k] # NL)
       /\ tok' = (tok \/ (text # <<>> /\ SegPayload(segs, k)))
       /\ held_line' = IF text # <<>> THEN [text |-> text, tag |-> SegItem(segs, k)]
                       ELSE NoLine
  /\ UNCHANGED <<running, current_frame, frame_count, frame_buffer, receiving_frame,
                 expected_frame_size, frame_width, frame_height, pc, chunk_size,
                 items, pending, buf_src, epoch, writes, fe_log, fs_log, ch_log>>
  /\ UNCHANGED <<tonly, conly, display_frame, qonly>>

\* process_serial_line on the line in hand; self.running is not looked at.
DispatchLine ==
  /\ pc = "line"
  /\ held_line # NoLine
  /\ process_serial_line(held_line.text, held_line.tag)
  /\ held_line' = NoLine
  /\ UNCHANGED <<running, stream, items, pending, short, segs, tok>>
  /\ UNCHANGED <<tonly, conly, display_frame, qonly>>

\* The loop is left at "while self.running", or because a read on the closed
\* port raised; a line in hand is processed first.
StopReaderExit == held_line = NoLine /\ ReaderExit

NextStop ==
  \/ RunDisplay
  \/ \E it \in RegularItems : Send(it)
  \/ TakeLine
  \/ DispatchLine
  \/ ChunkRead
  \/ ChunkTerm
  \/ Disconnect
  \/ StopReaderExit

SpecStop == Init /\ [][NextStop]_vars

(***************************************************************************)
(* ESP32CamWiredTester (src/test_esp32_wired_display.py): the reader       *)
(* thread splits the port's bytes at newlines and queues TEXT and BINARY   *)
(* lines; the main loop takes them from the queue and process_data         *)
(* reassembles the frame.  The object's fields share the variables of the  *)
(* display; fe_log records its FRAME_END lines.                            *)
(***************************************************************************)

\* What the camera writes to the tester: a header FRAME_START:width:height:size
\* declaring two bytes, binary lines of two and of one byte, the frame end, a
\* detection.
TesterItems ==
  { [id |-> "t_fs", bytes |-> W_FRAME_START \o <<"3", ":", "2", ":", "2", NL>>],
    [id |-> "t_bin2", bytes |-> <<XFF, XFF, NL>>],
    [id |-> "t_bin1", bytes |-> <<XFF, NL>>],
    [id |-> "t_fe", bytes |-> W_FRAME_END \o <<NL>>],
    [id |-> "t_obj", bytes |-> W_OBJECT_DETECTED \o <<"9", ":", "2", ":", "3", ":", "4", ":", "5", NL>>] }

\* __init__ of ESP32CamWiredTester.
TesterInit ==
  /\ running = FALSE
  /\ current_frame = NoFrame
  /\ frame_count = 0
  /\ frame_buffer = <<>>
  /\ receiving_frame = FALSE
  /\ expected_frame_size = 0
  /\ frame_width = 320
  /\ frame_height = 240
  /\ stream = <<>>
  /\ pc = "init"
  /\ chunk_size = 0
  /\ items = <<>>
  /\ pending = <<>>
  /\ short = FALSE
  /\ buf_src = <<>>
  /\ epoch = 0
  /\ segs = <<>>
  /\ tok = FALSE
  /\ writes = 0
  /\ fe_log = <<>>
  /\ fs_log = <<>>
  /\ ch_log = <<>>
  /\ data_queue = <<>>
  /\ buffer = <<>>
  /\ current_detection = NoDetection
  /\ detection_count = 0
  /\ ControllerIdle
  /\ LocalsUnset
  /\ HandoffEmpty

\* The variables the tester leaves alone.
donly == <<chunk_size, pending, short, buf_src, epoch, segs, tok, fs_log, ch_log, conly, lonly, qonly>>

\* run_test up to the start of the reader thread.
TesterRun ==
  /\ pc = "init"
  /\ running' = TRUE
  /\ pc' = "run"
  /\ UNCHANGED <<current_frame, frame_count, frame_buffer, receiving_frame,
                 expected_frame_size, frame_width, frame_height, stream,
                 items, writes, fe_log, donly, tonly>>

\* The camera writes one line.
TesterSend(it) ==
  /\ running
  /\ Len(items) < MaxTesterSend
  /\ stream' = stream \o it.bytes
  /\ items' = Append(items, it.id)
  /\ UNCHANGED <<running, current_frame, frame_count, frame_buffer, receiving_frame,
                 expected_frame_size, frame_width, frame_height, pc,
                 writes, fe_log, donly, tonly>>

HasNewline(bs) == \E k \in 1..Len(bs) : bs[k] = NL

\* read_serial_data: new_data = read(in_waiting); buffer += new_data, taken when
\* the inner loop has left no newline in buffer.
TesterReadAvailable ==
  /\ pc = "run"
  /\ running
  /\ ~HasNewline(buffer)
  /\ stream # <<>>
  /\ buffer' = buffer \o stream
  /\ stream' = <<>>
  /\ UNCHANGED <<running, current_frame, frame_count, frame_buffer, receiving_frame,
                 expected_frame_size, frame_width, frame_height, pc, items,
                 writes, fe_log, donly, data_queue, current_detection, detection_count,
                 thist>>

\* bytes.decode('utf-8'): UnicodeDecodeError on a byte that is no UTF-8.
DecodesStrict(bs) == \A k \in 1..Len(bs) : bs[k] # XFF

\* What one pass of "while b'\n' in buffer" puts in the queue for line, given
\* the value of receiving_frame the reader thread sees.
Enqueued(line, receiving) ==
  IF DecodesStrict(line)
  THEN (IF Strip(line) # <<>> THEN <<[type |-> "TEXT", data |-> Strip(line)]>> ELSE <<>>)
  ELSE (IF receiving /\ Len(line) > 0 THEN <<[type |-> "BINARY", data |-> line]>> ELSE <<>>)

\* A FRAME_START: line is in the queue, put there and not yet processed.
StartQueued(q) ==
  \E n \in 1..Len(q) : q[n].type = "TEXT" /\ StartsWith(q[n].data, W_FRAME_START)

\* read_serial_data: line, buffer = buffer.split(b'\n', 1) and the put.
TesterSplitLine ==
  /\ pc = "run"
  /\ running
  /\ HasNewline(buffer)
  /\ \E k \in {ReadLineLen(buffer)} :
     \E put \in {Enqueued(SubSeq(buffer, 1, k - 1), receiving_frame)} :
       /\ buffer' = SubSeq(buffer, k + 1, Len(buffer))
       /\ data_queue' = data_queue \o put
       /\ enq' = enq \o put
       /\ dropped' = (dropped \/ (k > 1 /\ ~DecodesStrict(SubSeq(buffer, 1, k - 1))
                                     /\ put = <<>> /\ StartQueued(data_queue)))
  /\ UNCHANGED taken
  /\ UNCHANGED <<running, current_frame, frame_count, frame_buffer, receiving_frame,
                 expected_frame_size, frame_width, frame_height, stream, pc, items,
                 writes, fe_log, donly, current_detection, detection_count>>

\* process_data, OBJECT_DETECTED:x:y:w:h:confidence: the five int(parts[k]).
ParseDetection(data) ==
  LET parts == Split(data, COLON)
  IN  [x |-> IntField(parts, 1), y |-> IntField(parts, 2), w |-> IntField(parts, 3),
       h |-> IntField(parts, 4), confidence |-> IntField(parts, 5)]

\* frame_width = 320; zone_width = frame_width / 3; x < zone_width,
\* x > zone_width * 2 (in thirds, to stay in the integers).
TesterZoneOfFrameWidth(x) ==
  IF 3 * x < frame_width THEN "LEFT"
  ELSE IF 3 * x > 2 * frame_width THEN "RIGHT" ELSE "CENTER"
TesterZone(x) ==
  IF 3 * x < 320 THEN "LEFT" ELSE IF 3 * x > 2 * 320 THEN "RIGHT" ELSE "CENTER"

\* The command that goes with the zone, lines 130-138.
TesterCommandOfY(d) ==
  IF 3 * d.y.v < 320 THEN "Move Left" ELSE IF 3 * d.y.v > 2 * 320 THEN "Move Right" ELSE "Stay"
TesterCommand(d) ==
  IF 3 * d.x.v < 320 THEN "Move Left" ELSE IF 3 * d.x.v > 2 * 320 THEN "Move Right" ELSE "Stay"

\* process_data, FRAME_START:width:height:size.
TesterParseHeader(data) ==
  LET parts == Split(data, COLON)
  IN  [width |-> IntField(parts, 1), height |-> IntField(parts, 2), size |-> IntField(parts, 3)]

\* process_received_frame: len(self.frame_buffer) < self.expected_frame_size
TesterIncomplete(buflen, expected) == buflen < expected

\* self.frame_buffer[:self.expected_frame_size]
Slice(buf, n) ==
  IF n >= 0 THEN SubSeq(buf, 1, IF n < Len(buf) THEN n ELSE Len(buf))
  ELSE SubSeq(buf, 1, IF Len(buf) + n > 0 THEN Len(buf) + n ELSE 0)

TesterOnDetection(data) ==
  \E d \in {ParseDetection(data)} :
    /\ IF d.x.ok /\ d.y.ok /\ d.w.ok /\ d.h.ok /\ d.confidence.ok
       THEN /\ detection_count' = detection_count + 1
            /\ current_detection' =
                 [x |-> d.x.v, y |-> d.y.v, w |-> d.w.v, h |-> d.h.v,
                  confidence |-> d.confidence.v, command |-> TesterCommand(d),
                  zone |-> TesterZone(d.x.v)]
       ELSE UNCHANGED <<detection_count, current_detection>>
    /\ UNCHANGED <<current_frame, frame_count, frame_buffer, receiving_frame,
                   expected_frame_size, frame_width, frame_height, writes, fe_log>>

TesterOnFrameStart(data) ==
  \E hp \in {TesterParseHeader(data)} :
    LET okW == hp.width.ok
        okH == okW /\ hp.height.ok
        okS == okH /\ hp.size.ok
    IN  /\ frame_width' = IF okW THEN hp.width.v ELSE frame_width
        /\ frame_height' = IF okH THEN hp.height.v ELSE frame_height
        /\ expected_frame_size' = IF okS THEN hp.size.v ELSE expected_frame_size
        /\ receiving_frame' = IF okS THEN TRUE ELSE receiving_frame
        /\ frame_buffer' = IF okS THEN <<>> ELSE frame_buffer
        /\ UNCHANGED <<current_frame, frame_count, writes, fe_log,
                       current_detection, detection_count>>

\* elif data == "FRAME_END", with process_received_frame.
TesterOnFrameEnd ==
  LET called == receiving_frame /\ ~TesterIncomplete(Len(frame_buffer), expected_frame_size)
      frame_data == Slice(frame_buffer, expected_frame_size)
  IN  \E ok \in (IF called THEN DecodeOutcomes(frame_data) ELSE {FALSE}) :
        /\ current_frame' = IF ok THEN Image(frame_data) ELSE current_frame
        /\ frame_count' = IF ok THEN frame_count + 1 ELSE frame_count
        /\ writes' = IF ok THEN writes + 1 ELSE writes
        /\ receiving_frame' = FALSE
        /\ fe_log' = Append(fe_log,
             [i |-> Len(fe_log) + 1, recv |-> receiving_frame, blen |-> Len(frame_buffer),
              size |-> expected_frame_size, called |-> called, ok |-> ok,
              buf |-> IF called THEN frame_data ELSE <<>>,
              pure |-> TRUE, recv1 |-> receiving_frame',
              fc0 |-> frame_count, fc1 |-> frame_count',
              w0 |-> writes, w1 |-> writes',
              cf0 |-> current_frame, cf1 |-> current_frame'])
        /\ UNCHANGED <<frame_buffer, expected_frame_size, frame_width, frame_height,
                       current_detection, detection_count>>

process_data(data_type, data) ==
  CASE data_type = "TEXT" /\ StartsWith(data, W_OBJECT_DETECTED) -> TesterOnDetection(data)
    [] data_type = "TEXT" /\ StartsWith(data, W_FRAME_START) -> TesterOnFrameStart(data)
    [] data_type = "TEXT" /\ data = W_FRAME_END -> TesterOnFrameEnd
    [] data_type = "TEXT" /\ data = W_NO_OBJECT ->
         /\ current_detection' = NoDetection
         /\ UNCHANGED <<current_frame, frame_count, frame_buffer, receiving_frame,
                        expected_frame_size, frame_width, frame_height, writes, fe_log,
                        detection_count>>
    [] data_type = "BINARY" /\ receiving_frame ->
         /\ frame_buffer' = frame_buffer \o data
         /\ UNCHANGED <<current_frame, frame_count, receiving_frame,
                        expected_frame_size, frame_width, frame_height, writes, fe_log,
                        current_detection, detection_count>>
    [] OTHER -> UNCHANGED <<current_frame, frame_count, frame_buffer, receiving_frame,
                            expected_frame_size, frame_width, frame_height, writes, fe_log,
                            current_detection, detection_count>>

\* queue.Queue.get_nowait(): the oldest token, and the queue without it.
GetNewest(q) == [item |-> q[Len(q)], rest |-> SubSeq(q, 1, Len(q) - 1)]
GetNowait(q) == [item |-> Head(q), rest |-> Tail(q)]

\* run_test: data_type, data = self.data_queue.get_nowait(); process_data
TesterProcessQueued ==
  /\ pc = "run"
  /\ running
  /\ data_queue # <<>>
  /\ \E g \in {GetNowait(data_queue)} :
       /\ data_queue' = g.rest
       /\ taken' = Append(taken, g.item)
       /\ process_data(g.item.type, g.item.data)
  /\ UNCHANGED <<running, stream, pc, items, buffer, donly, enq, dropped>>

TesterNext ==
  \/ TesterRun
  \/ \E it \in TesterItems : TesterSend(it)
  \/ TesterReadAvailable
  \/ TesterSplitLine
  \/ TesterProcessQueued

SpecTester == TesterInit /\ [][TesterNext]_vars

\* The tester fed detection lines only: three well-formed ones, one in each
\* zone, a line with six fields, a line with four, and a line with a field
\* that is no integer.
DetectionLine(id, fields) == [id |-> id, bytes |-> W_OBJECT_DETECTED \o fields \o <<NL>>]
DetectionItems ==
  { DetectionLine("d_left", <<"9", ":", "2", ":", "3", ":", "4", ":", "5">>),
    DetectionLine("d_centre", <<"1", "5", "0", ":", "7", ":", "3", ":", "4", ":", "5">>),
    DetectionLine("d_right", <<"2", "1", "4", ":", "2", ":", "8", ":", "6", ":", "1">>),
    DetectionLine("d_six", <<"1", ":", "2", ":", "3", ":", "4", ":", "5", ":", "6">>),
    DetectionLine("d_four", <<"1", ":", "2", ":", "3", ":", "4">>),
    DetectionLine("d_word", <<"1", ":", "x", ":", "3", ":", "4", ":", "5">>) }

\* At most MaxSpecial of the lines of a run are ill-formed ones.
IllFormedIds == {"d_six", "d_four", "d_word"}
DetectionSend(it) ==
  /\ it.id \in IllFormedIds =>
       Cardinality({k \in 1..Len(items) : items[k] \in IllFormedIds}) < MaxSpecial
  /\ TesterSend(it)

DetectionsNext ==
  \/ TesterRun
  \/ \E it \in DetectionItems : DetectionSend(it)
  \/ TesterReadAvailable
  \/ TesterSplitLine
  \/ TesterProcessQueued

SpecDetections == TesterInit /\ [][DetectionsNext]_vars

\* ============================================ both classes, with status lines
\* Either class is constructed and fed a frame (header, payload, FRAME_END)
\* with at most MaxSpecial status lines somewhere in between.
TesterStatusItems == {[id |-> it.id, bytes |-> it.bytes] : it \in StatusItems}
TesterFrameItems == {it \in TesterItems : it.id \in {"t_fs", "t_bin2", "t_fe"}}
StatusIds == {it.id : it \in StatusItems}
TesterStatusSend(it) ==
  /\ it.id \in StatusIds =>
       Cardinality({k \in 1..Len(items) : items[k] \in StatusIds}) < MaxSpecial
  /\ TesterSend(it)

\* Which class this run has constructed: the tester's reader stands at "run",
\* and before the start only the tester has no current_frame.
IsTester == pc = "run" \/ (pc = "init" /\ current_frame = NoFrame)

FramingNext ==
  \/ ~IsTester /\ RunDisplay
  \/ \E it \in RegularItems \cup StatusItems : ~IsTester /\ Send(it)
  \/ ~IsTester /\ ReadLine
  \/ ~IsTester /\ ChunkRead
  \/ ~IsTester /\ ChunkTerm
  \/ IsTester /\ TesterRun
  \/ \E it \in TesterFrameItems \cup TesterStatusItems : IsTester /\ TesterStatusSend(it)
  \/ IsTester /\ TesterReadAvailable
  \/ IsTester /\ TesterSplitLine
  \/ IsTester /\ TesterProcessQueued

SpecFraming == (Init \/ TesterInit) /\ [][FramingNext]_vars

\* ------------------------------------------ the tester on the display's wire
\* The tester fed what the camera writes for the display: a header, chunks
\* (CHUNK:n, n payload bytes, a newline) and FRAME_END.  One chunk's payload
\* is a newline and a letter, the other's is two bytes that are no text.
PayloadItems == RegularItems \cup BinaryItems
PayloadNext ==
  \/ TesterRun
  \/ \E it \in PayloadItems : TesterSend(it)
  \/ TesterReadAvailable
  \/ TesterSplitLine
  \/ TesterProcessQueued

SpecPayload == TesterInit /\ [][PayloadNext]_vars

\* =============================================== the line-oriented testers
\* ESP32CamTester (src/test_esp32_direct.py), ESP32CamTesterWithDisplay
\* (src/test_esp32_simple.py) and ESP32CamStreamTester
\* (src/test_esp32_stream_display.py) share one read_serial_data: readline(),
\* a strict decode, strip, and a put of the non-empty line, all inside one
\* try whose except leaves the loop.  Their data_queue holds the lines.

\* What the camera writes: three control lines, an empty line, and a line
\* with a byte that is no UTF-8.
LineReaderItems ==
  { [id |-> "l_ready", bytes |-> W_CAMERA_READY \o <<NL>>],
    [id |-> "l_none", bytes |-> W_NO_OBJECT \o <<NL>>],
    [id |-> "l_object",
     bytes |-> W_OBJECT_DETECTED \o <<"9", ":", "2", ":", "3", ":", "4", ":", "5", NL>>],
    [id |-> "l_empty", bytes |-> <<NL>>],
    [id |-> "l_garbled", bytes |-> <<"N", "O", XFF, NL>>] }

\* __init__: the queue is empty and nothing runs.
LineReaderInit ==
  /\ running = FALSE
  /\ data_queue = <<>>
  /\ stream = <<>>
  /\ pc = "init"
  /\ items = <<>>
  /\ processed = <<>>
  /\ last_detection = NoDetection
  /\ detection_history = <<>>
  /\ current_frame = NoFrame
  /\ frame_count = 0
  /\ frame_buffer = <<>>
  /\ receiving_frame = FALSE
  /\ expected_frame_size = 0
  /\ frame_width = 0
  /\ frame_height = 0
  /\ chunk_size = 0
  /\ pending = <<>>
  /\ short = FALSE
  /\ buf_src = <<>>
  /\ epoch = 0
  /\ segs = <<>>
  /\ tok = FALSE
  /\ writes = 0
  /\ fe_log = <<>>
  /\ fs_log = <<>>
  /\ ch_log = <<>>
  /\ buffer = <<>>
  /\ current_detection = NoDetection
  /\ detection_count = 0
  /\ ControllerIdle
  /\ display_frame = NoFrame
  /\ held_line = NoLine
  /\ HandoffEmpty

\* The variables the line-oriented testers leave alone.
ronly == <<current_frame, frame_count, frame_buffer, receiving_frame,
           expected_frame_size, frame_width, frame_height, writes, fe_log,
           donly, buffer, current_detection, detection_count, thist>>

\* run_test: self.running = True and the reader thread is started.
LineReaderRun ==
  /\ pc = "init"
  /\ running' = TRUE
  /\ pc' = "run"
  /\ UNCHANGED <<stream, items, data_queue, ronly>>

\* One pass of the reader's loop with bytes waiting: readline() returns
\* through the first newline, or what arrived before the timeout.  A line
\* that does not decode raises UnicodeDecodeError inside the try, and the
\* except clause breaks out of the loop.
LineReaderRead ==
  /\ pc = "run"
  /\ running
  /\ stream # <<>>
  /\ \E k \in {ReadLineLen(stream)} :
     \E raw \in {SubSeq(stream, 1, k)} :
       /\ stream' = SubSeq(stream, k + 1, Len(stream))
       /\ IF DecodesStrict(raw)
          THEN /\ data_queue' = IF Strip(raw) # <<>> THEN Append(data_queue, Strip(raw))
                                ELSE data_queue
               /\ pc' = "run"
          ELSE /\ pc' = "done"
               /\ UNCHANGED data_queue
  /\ UNCHANGED <<running, items, ronly>>

\* self.max_history of ESP32CamTester.
MaxHistory == 50

\* ESP32CamTester.process_data: the branch a line takes.
DirectKindResets(data) ==
  IF data = W_CAMERA_READY THEN "CAMERA_READY"
  ELSE IF StartsWith(data, W_OBJECT_DETECTED) THEN "OBJECT_DETECTED"
  ELSE IF StartsWith(data, W_ERROR) THEN "ERROR"
  ELSE "NO_OBJECT"
DirectKind(data) ==
  IF data = W_CAMERA_READY THEN "CAMERA_READY"
  ELSE IF data = W_NO_OBJECT THEN "NO_OBJECT"
  ELSE IF StartsWith(data, W_OBJECT_DETECTED) THEN "OBJECT_DETECTED"
  ELSE IF StartsWith(data, W_ERROR) THEN "ERROR"
  ELSE "UNKNOWN"

\* ESP32CamTester.process_data, OBJECT_DETECTED:x:y:w:h:pixels: the detection
\* is stored and appended to the history once all five fields have parsed.
DirectOnDetection(data) ==
  \E d \in {ParseDetection(data)} :
    IF d.x.ok /\ d.y.ok /\ d.w.ok /\ d.h.ok /\ d.confidence.ok
    THEN \E det \in {[x |-> d.x.v, y |-> d.y.v, w |-> d.w.v, h |-> d.h.v,
                       pixels |-> d.confidence.v]} :
           /\ last_detection' = det
           /\ detection_history' =
                IF Len(detection_history) + 1 > MaxHistory
                THEN Tail(Append(detection_history, det))
                ELSE Append(detection_history, det)
    ELSE UNCHANGED <<last_detection, detection_history>>

DirectProcessData(data) ==
  \E kind \in {DirectKind(data)} :
    CASE kind = "NO_OBJECT" ->
           last_detection' = NoDetection /\ UNCHANGED detection_history
      [] kind = "OBJECT_DETECTED" -> DirectOnDetection(data)
      [] OTHER -> UNCHANGED <<last_detection, detection_history>>

\* run_test: data = self.data_queue.get_nowait(); self.process_data(data)
LineReaderProcess ==
  /\ pc # "init"
  /\ running
  /\ data_queue # <<>>
  /\ data_queue' = Tail(data_queue)
  /\ processed' = Append(processed, Head(data_queue))
  /\ DirectProcessData(Head(data_queue))
  /\ UNCHANGED <<running, stream, pc, items>>
  /\ UNCHANGED <<current_frame, frame_count, frame_buffer, receiving_frame,
                 expected_frame_size, frame_width, frame_height, writes, fe_log,
                 chunk_size, pending, short, buf_src, epoch, segs, tok, fs_log, ch_log,
                 conly, lonly, buffer, current_detection, detection_count, thist>>

LineReaderNext ==
  \/ LineReaderRun
  \/ \E it \in LineReaderItems : TesterSend(it)
  \/ LineReaderRead
  \/ LineReaderProcess

SpecLineReader == LineReaderInit /\ [][LineReaderNext]_vars

\* ESP32CamTester fed detections, NO_OBJECT, an error report and two lines of
\* no known form: a word, and OBJECT_DETECTED without its colon.
DirectItems ==
  { [id |-> "l_none", bytes |-> W_NO_OBJECT \o <<NL>>],
    [id |-> "l_object",
     bytes |-> W_OBJECT_DETECTED \o <<"9", ":", "2", ":", "3", ":", "4", ":", "5", NL>>],
    [id |-> "l_error", bytes |-> W_ERROR \o <<"x", NL>>],
    [id |-> "l_word", bytes |-> <<"h", "i", NL>>],
    [id |-> "l_near", bytes |-> SubSeq(W_OBJECT_DETECTED, 1, Len(W_OBJECT_DETECTED) - 1) \o <<NL>>] }

DirectNext ==
  \/ LineReaderRun
  \/ \E it \in DirectItems : TesterSend(it)
  \/ LineReaderRead
  \/ LineReaderProcess

SpecDirect == LineReaderInit /\ [][DirectNext]_vars

\* ================================================= MotionDetectionController
\* src/computer_controller.py: each cycle of run_with_esp32_stream (and of
\* run_with_local_camera, whose loop body is the same) reads a frame, has
\* process_frame turn it into a command, and forwards the command to the
\* Arduino when it differs from the last one forwarded or when command_delay
\* has run out.

\* command_delay after a forward.
CommandDelay == 10

\* The x centres and the frame widths a cycle may see.
CentreXs == {0, 100, 106, 107, 150, 200, 213, 214, 299}
FrameWidths == {300, 320}

\* process_frame, lines 102-111: zone_width = frame_width / 3 is a true
\* division, so center_x < zone_width compares with the exact third.
ClassifyFloorThird(x, w) ==
  IF x < w \div 3 THEN "Move Left"
  ELSE IF x > (w \div 3) * 2 THEN "Move Right"
  ELSE "Stay"
Classify(x, w) ==
  IF 3 * x < w THEN "Move Left"
  ELSE IF 3 * x > 2 * w THEN "Move Right"
  ELSE "Stay"

\* process_frame: "Stay" unless a large enough contour was found.
FrameCommand(object, x, w) == IF object THEN Classify(x, w) ELSE "Stay"

\* The condition of line 153.
ForwardOnTimer(command, last, delay) == delay <= 0
ForwardDue(command, last, delay) == command # last \/ delay <= 0

\* last_command at the end of a cycle, line 155: assigned on every forward,
\* whatever send_command_to_arduino did (tx is the outcome of its call).
NextLastIfWritten(sent, tx, command, last) ==
  IF sent /\ tx.bytes # <<>> THEN command ELSE last
NextLastCommand(sent, tx, command, last) == IF sent THEN command ELSE last

\* command_delay at the end of a cycle, lines 156 and 158.
NextDelayHeld(sent, delay) == IF sent THEN CommandDelay ELSE delay
NextDelay(sent, delay) == IF sent THEN CommandDelay ELSE delay - 1

UpTo(n) == IF n < MaxCycles THEN n + 1 ELSE MaxCycles

\* send_command_to_arduino: the table of line 51.
command_map_swapped == ("Move Left" :> "R") @@ ("Move Right" :> "L") @@ ("Stay" :> "S")
command_map == ("Move Left" :> "L") @@ ("Move Right" :> "R") @@ ("Stay" :> "S")

Tx(from, command, open, bytes, error) ==
  [called |-> TRUE, from |-> from, command |-> command, open |-> open,
   bytes |-> bytes, error |-> error]

\* send_command_to_arduino: what one call may leave behind. With the port
\* open a command of the table is written as its letter, unless write raises
\* SerialException (caught at line 61); any other command writes nothing;
\* without an open port nothing is written.
send_command_to_arduino(from, command) ==
  IF arduino = "open"
  THEN IF command \in DOMAIN command_map
       THEN { Tx(from, command, TRUE, <<command_map[command]>>, FALSE),
              Tx(from, command, TRUE, <<>>, TRUE) }
       ELSE { Tx(from, command, TRUE, <<>>, FALSE) }
  ELSE { Tx(from, command, FALSE, <<>>, FALSE) }

\* init_arduino_connection, the branch where serial.Serial succeeds; where it
\* raises, self.arduino stays None.
init_arduino_connection ==
  /\ ~looping
  /\ cycles = 0
  /\ arduino = "None"
  /\ arduino' = "open"
  /\ UNCHANGED <<last_command, command_delay, looping, cycles, forwards, allsame,
                 since, seen, arduino_tx>>
  /\ UNCHANGED <<dvars, hvars, tonly, lonly, qonly>>

\* Lines 140-143: the locals are set and the loop is entered.
RunController ==
  /\ ~looping
  /\ cycles = 0
  /\ last_command' = ""
  /\ command_delay' = 0
  /\ looping' = TRUE
  /\ UNCHANGED <<cycles, forwards, allsame, since, seen, arduino, arduino_tx>>
  /\ UNCHANGED <<dvars, hvars, tonly, lonly, qonly>>

\* One pass of the loop body with a frame read, lines 144-158.
ControllerCycle ==
  /\ looping
  /\ \E object \in BOOLEAN, x \in CentreXs, w \in FrameWidths :
       /\ object \/ (x = 0 /\ w = 320)
       /\ \E command \in {FrameCommand(object, x, w)} :
          \E sent \in {ForwardDue(command, last_command, command_delay)} :
            /\ arduino_tx' \in IF sent THEN send_command_to_arduino("loop", command)
                                       ELSE {NoTx}
            /\ last_command' = NextLastCommand(sent, arduino_tx', command, last_command)
            /\ command_delay' = NextDelay(sent, command_delay)
            /\ forwards' = IF sent THEN UpTo(forwards) ELSE forwards
            /\ since' = IF sent THEN 0 ELSE UpTo(since)
            /\ allsame' = (cycles = 0 \/ (allsame /\ command = seen.command))
            /\ seen' = [object |-> object, x |-> x, w |-> w, command |-> command,
                        last0 |-> last_command, delay0 |-> command_delay,
                        sent |-> sent, tx0 |-> arduino_tx]
  /\ cycles' = UpTo(cycles)
  /\ UNCHANGED <<looping, arduino>>
  /\ UNCHANGED <<dvars, hvars, tonly, lonly, qonly>>

\* cap.read() fails (line 146) or 'q' is pressed (line 164): the loop ends.
ControllerStop ==
  /\ looping
  /\ looping' = FALSE
  /\ UNCHANGED <<last_command, command_delay, cycles, forwards, allsame, since, seen,
                 arduino, arduino_tx>>
  /\ UNCHANGED <<dvars, hvars, tonly, lonly, qonly>>

ControllerNext ==
  \/ RunController
  \/ ControllerCycle
  \/ ControllerStop

\* The commands a caller may hand to send_command_to_arduino: those of the
\* table and two that are not in it.
CallCommands == {"Move Left", "Move Right", "Stay", "Stop", ""}

\* send_command_to_arduino called on its own, outside the run loop.
SendCommandCall ==
  /\ ~looping
  /\ \E command \in CallCommands :
       arduino_tx' \in send_command_to_arduino("call", command)
  /\ UNCHANGED <<last_command, command_delay, looping, cycles, forwards, allsame,
                 since, seen, arduino>>
  /\ UNCHANGED <<dvars, hvars, tonly, lonly, qonly>>

\* cleanup: an open port is closed.
cleanup ==
  /\ ~looping
  /\ arduino = "open"
  /\ arduino' = "closed"
  /\ UNCHANGED <<last_command, command_delay, looping, cycles, forwards, allsame,
                 since, seen, arduino_tx>>
  /\ UNCHANGED <<dvars, hvars, tonly, lonly, qonly>>

ArduinoNext ==
  \/ init_arduino_connection
  \/ RunController
  \/ ControllerCycle
  \/ ControllerStop
  \/ SendCommandCall
  \/ cleanup

SpecArduino == Init /\ [][ArduinoNext]_vars

\* The loop does nothing but cycle: while it is in the loop and frames are
\* read, the next cycle is eventually run.
SpecController == Init /\ [][ControllerNext]_vars /\ WF_vars(ControllerCycle)

\* ---------------------------------------------- the wire, as the camera wrote it
Kind(k) == ItemOf(items[k]).kind

\* The payload bytes of the chunks written at positions a..b, in wire order.
RECURSIVE FramePayload(_, _)
FramePayload(a, b) ==
  IF a > b THEN <<>> ELSE Payload(ItemOf(items[a])) \o FramePayload(a + 1, b)

\* Items i..j are one well-formed frame: a valid header, chunks that carry
\* exactly the declared number of bytes, FRAME_END.
WellFormedFrame(i, j) ==
  /\ 1 <= i /\ i < j /\ j <= Len(items)
  /\ Kind(i) = "header"
  /\ Kind(j) = "end"
  /\ \A k \in (i + 1)..(j - 1) : Kind(k) = "chunk"
  /\ Len(FramePayload(i + 1, j - 1)) = ItemOf(items[i]).size

Headers == {k \in 1..Len(items) : Kind(k) = "header"}
Ends == {k \in 1..Len(items) : Kind(k) = "end"}
Frames == {f \in Headers \X Ends : WellFormedFrame(f[1], f[2])}

\* Every item written up to position j follows the wire format.
Conformant(j) == \A k \in 1..j : ItemOf(items[k]).conf

\* The reader has read every byte of the items up to position j.
Consumed(j) == \A n \in 1..Len(segs) : segs[n].i > j

\* Every read so far found its bytes in the port: frame f was fed to a reader
\* that stood at a line boundary, and the reader has read all of it.
Fed(f) == Conformant(f[2]) /\ ~short /\ Consumed(f[2])

\* The FRAME_END records that stem from the bytes of frame f.
FrameEnds(f) == {n \in 1..Len(fe_log) : f[1] < fe_log[n].i /\ fe_log[n].i <= f[2]}

\* Frame f reached the decoder once, with the bytes the camera sent.
Delivered(f) ==
  /\ Cardinality(FrameEnds(f)) = 1
  /\ \A n \in FrameEnds(f) :
       /\ fe_log[n].i = f[2]
       /\ fe_log[n].called
       /\ fe_log[n].buf = FramePayload(f[1] + 1, f[2] - 1)

\* The record of frame f's FRAME_END shows one frame published.
Emitted(n) ==
  /\ fe_log[n].ok
  /\ fe_log[n].fc1 = fe_log[n].fc0 + 1
  /\ fe_log[n].w1 = fe_log[n].w0 + 1
  /\ fe_log[n].cf1 = Image(fe_log[n].buf)

\* ------------------------------------------------------------------ C1
\* C1: a well-formed frame (FRAME_START:size:width:height, chunks carrying
\* size bytes in all, FRAME_END) whose bytes the reads found in the port is
\* handed to the decoder exactly once with the camera's payload bytes in their
\* order, and when the decoder succeeds frame_count grows by exactly 1 and
\* current_frame is assigned once, to the decoded payload.
C1_WellFormedFrameEmitted ==
  \A f \in Frames :
    Fed(f) =>
      /\ Delivered(f)
      /\ \A n \in FrameEnds(f) :
           /\ fe_log[n].ok => Emitted(n)
           /\ ~fe_log[n].ok => fe_log[n].fc1 = fe_log[n].fc0 /\ fe_log[n].w1 = fe_log[n].w0

\* A frame of two chunks was fed, decoded and published.
C1_Witness ==
  \E f \in Frames :
    /\ Fed(f)
    /\ f[2] - f[1] = 3
    /\ \E n \in FrameEnds(f) : Emitted(n) /\ Len(fe_log[n].buf) = 4

\* ------------------------------------------------------------------ C2
\* The FRAME_END records taken while accumulating with a buffer whose length
\* differs from the declared size.
Mismatches == {n \in 1..Len(fe_log) : fe_log[n].recv /\ fe_log[n].blen # fe_log[n].size}

\* C2: a FRAME_END that finds a buffer shorter or longer than the declared size
\* emits nothing (the decoder is not called, current_frame and frame_count keep
\* their values) and leaves receiving_frame false; a well-formed frame fed after
\* it reaches the decoder once with its own bytes and is published when it
\* decodes.
C2_MismatchDropsFrame ==
  /\ \A n \in Mismatches :
       /\ ~fe_log[n].called
       /\ fe_log[n].cf1 = fe_log[n].cf0
       /\ fe_log[n].fc1 = fe_log[n].fc0
       /\ fe_log[n].w1 = fe_log[n].w0
       /\ ~fe_log[n].recv1
  /\ \A f \in Frames :
       (Fed(f) /\ \E n \in Mismatches : fe_log[n].i < f[1]) =>
         /\ Delivered(f)
         /\ \A m \in FrameEnds(f) : fe_log[m].ok => Emitted(m)

\* A frame was published after a FRAME_END that found a buffer of the wrong
\* length.
C2_Witness ==
  \E f \in Frames :
    /\ Fed(f)
    /\ \E n \in Mismatches : fe_log[n].i < f[1]
    /\ \E m \in FrameEnds(f) : Emitted(m)

\* ------------------------------------------------------------------ C3
\* C3 (under SpecTester): the tester publishes a frame at FRAME_END only when
\* the buffer holds exactly expected_frame_size bytes; a shorter or longer
\* buffer is never decoded.
C3_TesterEmitsOnlyExactSize ==
  \A n \in 1..Len(fe_log) :
    fe_log[n].ok => fe_log[n].blen = fe_log[n].size

\* ------------------------------------------------------------------ C4
\* The FRAME_START records of valid headers processed while a frame was being
\* accumulated.
Restarts == {n \in 1..Len(fs_log) : fs_log[n].recv0 /\ Kind(fs_log[n].i) = "header"}

\* C4: a valid FRAME_START processed while a frame is being accumulated starts
\* the new frame with an empty buffer and the new header's size, width and
\* height; while a frame is being accumulated every byte of the buffer was read
\* under the latest FRAME_START, and every buffer handed to the decoder holds
\* only bytes read under the latest FRAME_START, so no byte of the aborted frame
\* is emitted.
C4_RestartAbortsFrame ==
  /\ \A n \in Restarts :
       /\ fs_log[n].recv1
       /\ fs_log[n].blen1 = 0
       /\ fs_log[n].size1 = ItemOf(items[fs_log[n].i]).size
       /\ fs_log[n].w1 = ItemOf(items[fs_log[n].i]).w
       /\ fs_log[n].h1 = ItemOf(items[fs_log[n].i]).h
  /\ receiving_frame => \A k \in 1..Len(buf_src) : buf_src[k] = epoch
  /\ \A m \in 1..Len(fe_log) : fe_log[m].called => fe_log[m].pure

\* A valid header arrived on top of a frame that already held bytes, and the
\* frame it started was handed to the decoder.
C4_Witness ==
  \E n \in Restarts :
    /\ fs_log[n].blen0 > 0
    /\ \E m \in 1..Len(fe_log) : fe_log[m].called /\ fe_log[m].i > fs_log[n].i

\* ------------------------------------------------------------------ C5
\* A framing fault lies before position i: a malformed header or chunk line, a
\* FRAME_END that emitted nothing (no frame open, size mismatch, decode
\* failure), or a frame left open when the next header came.
FaultBefore(i) ==
  \/ \E k \in 1..(i - 1) : Kind(k) = "fault"
  \/ \E n \in 1..Len(fe_log) : fe_log[n].i < i /\ ~fe_log[n].ok
  \/ \E n \in 1..Len(fs_log) : fs_log[n].i <= i /\ fs_log[n].recv0

NewlineChunks ==
  {k \in 1..Len(items) :
     Kind(k) = "chunk" /\ \E b \in 1..Len(Payload(ItemOf(items[k]))) : Payload(ItemOf(items[k]))[b] = NL}

\* C6: as long as every CHUNK:n line is followed by its n payload bytes and the
\* reads find their bytes in the port, no payload byte is part of a line given
\* to process_serial_line, whether the payload holds newlines or spells a
\* control line.
C6_PayloadNeverTokenized ==
  (Conformant(Len(items)) /\ ~short) => ~tok

\* The reader went through a chunk whose payload spells FRAME_END and a newline.
C6_Witness ==
  /\ Conformant(Len(items))
  /\ ~short
  /\ ~tok
  /\ \E k \in NewlineChunks : items[k] = "ch_fe" /\ Consumed(k)

\* ------------------------------------------------------------------ C7
\* The chunk reads that ran to their end and whose n payload bytes and one more
\* byte were in the port when the read was issued.
ServedChunks ==
  {n \in 1..Len(ch_log) : ch_log[n].there /\ ch_log[n].term >= 0}

\* C7: handling CHUNK:n takes exactly n payload bytes and exactly one
\* terminator byte from the stream, whatever the bytes are.
C7_ChunkConsumesExactly ==
  \A n \in ServedChunks : ch_log[n].got = ch_log[n].n /\ ch_log[n].term = 1

\* ------------------------------------------------------------------ C8
\* C8: while a frame with a positive declared size is being accumulated the
\* buffer is never longer than the declared size.
C8_BufferWithinDeclaredSize ==
  (receiving_frame /\ expected_frame_size > 0) => Len(frame_buffer) <= expected_frame_size

\* ------------------------------------------------------------------ C9
\* The FRAME_START records of malformed headers.
MalformedHeaders == {n \in 1..Len(fs_log) : Kind(fs_log[n].i) = "fault"}

\* C9: a malformed FRAME_START line (too few fields, a field that is no
\* integer, a size that is not positive) leaves receiving_frame,
\* expected_frame_size, frame_width, frame_height and frame_buffer as they were.
C9_MalformedHeaderChangesNothing ==
  \A n \in MalformedHeaders :
    /\ fs_log[n].recv1 = fs_log[n].recv0
    /\ fs_log[n].size1 = fs_log[n].size0
    /\ fs_log[n].w1 = fs_log[n].w0
    /\ fs_log[n].h1 = fs_log[n].h0
    /\ fs_log[n].same

\* ------------------------------------------------------------------ C10
\* C10: while receiving_frame is true expected_frame_size is positive.
C10_ReceivingImpliesPositiveSize ==
  receiving_frame => expected_frame_size > 0


\* ------------------------------------------------------------------ C11
\* C11: from the loop's initial state (last_command empty, command_delay 0),
\* when the same command is produced on 10 consecutive cycles, exactly 2
\* commands have been forwarded after the tenth cycle: one on cycle 1 and
\* the heartbeat on cycle 10.
C11_TwoForwardsInTenCycles ==
  (cycles = 10 /\ allsame) => forwards = 2

\* ------------------------------------------------------------------ C12
\* C12: a cycle whose command differs from last_command forwards it in that
\* same cycle, whatever command_delay is; a cycle whose command equals
\* last_command while command_delay > 0 forwards nothing.
C12_ChangeForwardsAtOnce ==
  cycles > 0 =>
    /\ seen.command # seen.last0 =>
         (seen.sent /\ last_command = seen.command /\ since = 0)
    /\ (seen.command = seen.last0 /\ seen.delay0 > 0) =>
         (~seen.sent /\ last_command = seen.last0 /\ since > 0)

\* A changed command was forwarded while command_delay was still positive.
C12_Witness ==
  /\ cycles > 1
  /\ seen.command # seen.last0
  /\ seen.delay0 > 0
  /\ seen.sent

\* ------------------------------------------------------------------ C13
\* C13: while the loop keeps cycling, a command is forwarded again and again
\* even when the command never changes, and the number of cycles between two
\* forwards never exceeds a fixed constant (CommandDelay cycles without a
\* forward, then the forward).
C13_HeartbeatForever ==
  /\ []<>(~looping \/ seen.sent)
  /\ [](since <= CommandDelay)

\* The unchanged command was forwarded again because command_delay ran out.
C13_Witness ==
  /\ looping
  /\ seen.sent
  /\ seen.command = seen.last0
  /\ seen.delay0 = 0
  /\ cycles > 1

ZoneItems ==
  { it \in TesterItems : it.id \in {"t_fs", "t_bin2"} }
  \cup { [id |-> "z_fs640",
          bytes |-> W_FRAME_START \o <<"6", "4", "0", ":", "2", ":", "2", NL>>],
         DetectionLine("z_107", <<"1", "0", "7", ":", "2", ":", "3", ":", "4", ":", "5">>) }
  \cup { it \in DetectionItems : it.id \in {"d_left", "d_right"} }

ZonesNext ==
  \/ TesterRun
  \/ \E it \in ZoneItems : TesterSend(it)
  \/ TesterReadAvailable
  \/ TesterSplitLine
  \/ TesterProcessQueued

SpecZones == TesterInit /\ [][ZonesNext]_vars

\* ------------------------------------------------------------------ C15
\* What the camera meant by each well-formed detection line: x, y, w, h and
\* the metric, in the order the fields were written.
Meant ==
  { [id |-> "d_left", x |-> 9, y |-> 2, w |-> 3, h |-> 4, metric |-> 5,
     zone |-> "LEFT", command |-> "Move Left"],
    [id |-> "d_centre", x |-> 150, y |-> 7, w |-> 3, h |-> 4, metric |-> 5,
     zone |-> "CENTER", command |-> "Stay"],
    [id |-> "d_right", x |-> 214, y |-> 2, w |-> 8, h |-> 6, metric |-> 1,
     zone |-> "RIGHT", command |-> "Move Right"] }
LineText(id) ==
  LET it == CHOOSE d \in DetectionItems : d.id = id
  IN  [type |-> "TEXT", data |-> SubSeq(it.bytes, 1, Len(it.bytes) - 1)]

\* C15: when the tester processes OBJECT_DETECTED:x:y:w:h:metric with five
\* integers, current_detection becomes exactly those values in field order,
\* the metric as confidence, with the zone and the command that x falls in,
\* and detection_count grows by one.
C15_DetectionTakenInFieldOrder ==
  [][ \A m \in Meant :
        (TesterProcessQueued /\ Head(data_queue) = LineText(m.id)) =>
          /\ current_detection' =
               [x |-> m.x, y |-> m.y, w |-> m.w, h |-> m.h, confidence |-> m.metric,
                command |-> m.command, zone |-> m.zone]
          /\ detection_count' = detection_count + 1 ]_vars

\* The detection in the right zone has been taken, after another one.
C15_Witness ==
  /\ detection_count = 2
  /\ current_detection.zone = "RIGHT"
  /\ current_detection.x = 214
  /\ current_detection.confidence = 1

\* ------------------------------------------------------------------ C16
FieldsOf(data) == Tail(Split(data, COLON))
MalformedDetection(data) ==
  /\ StartsWith(data, W_OBJECT_DETECTED)
  /\ \/ Len(FieldsOf(data)) # 5
     \/ \E k \in 1..Len(FieldsOf(data)) : ~ParseInt(FieldsOf(data)[k]).ok

\* C16: an OBJECT_DETECTED: line whose field count is not exactly five (fewer
\* or more) or one of whose fields is no integer changes neither
\* current_detection nor detection_count.
C16_MalformedDetectionIgnored ==
  [][ (TesterProcessQueued /\ Head(data_queue).type = "TEXT"
         /\ MalformedDetection(Head(data_queue).data)) =>
        UNCHANGED <<current_detection, detection_count>> ]_vars

\* ------------------------------------------------------------------ C17
FramingFields ==
  <<receiving_frame, expected_frame_size, frame_width, frame_height, frame_buffer>>

\* The display's reader takes a whole status line from the port while a
\* frame is being received.
DisplayTakesStatusLine ==
  /\ ~IsTester
  /\ pc = "line"
  /\ receiving_frame
  /\ segs # <<>>
  /\ ItemOf(Head(segs).it).kind = "status"
  /\ Head(segs).done = 0
  /\ Len(stream) >= Head(segs).left
  /\ segs' = Tail(segs)

\* The tester's process_data takes a status line from the queue while a
\* frame is being received.
TesterTakesStatusLine ==
  /\ IsTester
  /\ receiving_frame
  /\ data_queue # <<>>
  /\ \E it \in StatusItems :
       Head(data_queue) = [type |-> "TEXT", data |-> SubSeq(it.bytes, 1, Len(it.bytes) - 1)]
  /\ data_queue' = Tail(data_queue)

\* Items i..j are a frame with status lines inside: a valid header, chunks
\* carrying exactly the declared number of bytes with at least one status
\* line among them, FRAME_END.
InterleavedFrame(i, j) ==
  /\ 1 <= i /\ i < j /\ j <= Len(items)
  /\ Kind(i) = "header"
  /\ Kind(j) = "end"
  /\ \A k \in (i + 1)..(j - 1) : Kind(k) \in {"chunk", "status"}
  /\ \E k \in (i + 1)..(j - 1) : Kind(k) = "status"
  /\ Len(FramePayload(i + 1, j - 1)) = ItemOf(items[i]).size

\* C17: in the display and in the tester, a control line that has nothing to
\* do with framing (CAMERA_READY, OBJECT_DETECTED, NO_OBJECT, ERROR, unknown)
\* processed while a frame is being received leaves receiving_frame,
\* expected_frame_size, frame_width, frame_height and frame_buffer as they
\* were, so that the frame still completes with the same bytes.
C17_StatusLineKeepsFrame ==
  /\ [][ (DisplayTakesStatusLine \/ TesterTakesStatusLine) =>
           UNCHANGED FramingFields ]_vars
  /\ [](~IsTester =>
          \A f \in Headers \X Ends :
            (InterleavedFrame(f[1], f[2]) /\ Fed(f)) => Delivered(f))

\* A frame with a status line between its header and its FRAME_END has
\* reached the decoder.
C17_Witness ==
  /\ ~IsTester
  /\ \E f \in Headers \X Ends :
       /\ InterleavedFrame(f[1], f[2])
       /\ Fed(f)
       /\ Delivered(f)
       /\ \A n \in FrameEnds(f) : Emitted(n)

\* ------------------------------------------------------------------ C18
\* The FRAME_END records whose buffer had exactly the declared length and
\* whose decode succeeded.
ExactFrames ==
  {n \in 1..Len(fe_log) :
     fe_log[n].called /\ fe_log[n].ok /\ fe_log[n].blen = fe_log[n].size}

\* C18: under every interleaving of the reader thread and the display loop,
\* the current_frame the display loop reads is the placeholder or an image
\* decoded from a buffer whose length equalled the declared size when
\* FRAME_END was processed; it is never a partially accumulated buffer.
C18_DisplayShowsWholeFrames ==
  \/ display_frame = NoFrame
  \/ display_frame = Placeholder
  \/ \E n \in ExactFrames :
       /\ display_frame = Image(fe_log[n].buf)
       /\ Len(display_frame.data) = fe_log[n].size

\* The display loop has read a decoded frame while the reader is in the
\* middle of the next one.
C18_Witness ==
  /\ display_frame.kind = "image"
  /\ receiving_frame
  /\ frame_buffer # <<>>
  /\ Len(frame_buffer) < expected_frame_size

\* ------------------------------------------------------------------ C19
\* C19: after disconnect() (running false, the port closed) the reader
\* thread's loop terminates, and a frame whose FRAME_END had not been
\* processed at that moment is never emitted afterwards: once disconnect()
\* has run, no step assigns current_frame or counts a frame.
C19_NoFrameAfterDisconnect ==
  [][ (pc # "init" /\ ~running) =>
        UNCHANGED <<current_frame, frame_count, writes>> ]_vars

\* ------------------------------------------------------------------ C20
\* C20: in the line-oriented readers a line that is not valid UTF-8 is a
\* recoverable fault: the reader's loop keeps running while the tester runs,
\* so that every valid control line arriving afterwards is still enqueued
\* and processed.
C20_GarbledLineIsRecoverable ==
  running => pc # "done"

\* ------------------------------------------------------------------ C21
\* The tester has read and processed everything the camera wrote.
TesterDrained == stream = <<>> /\ buffer = <<>> /\ data_queue = <<>>

\* C21: in the tester every payload byte sent between a FRAME_START line and
\* its FRAME_END line ends up in frame_buffer, in order and exactly once,
\* whatever the payload holds (newline bytes, segments that are valid text),
\* so that at FRAME_END frame_buffer equals the payload sent.
C21_TesterBufferIsPayload ==
  \A f \in Headers \X Ends :
    (WellFormedFrame(f[1], f[2]) /\ f[2] = Len(items) /\ TesterDrained /\ ~dropped) =>
      frame_buffer = FramePayload(f[1] + 1, f[2] - 1)

\* ------------------------------------------------------------------ C22
\* C22: in the display, processing FRAME_END while a frame is being received
\* always leaves the reassembler idle with an empty frame buffer, whether the
\* frame decoded, failed to decode, or had the wrong size.
C22_FrameEndClearsBuffer ==
  [][ (receiving_frame /\ Len(fe_log') = Len(fe_log) + 1) =>
        (~receiving_frame' /\ frame_buffer' = <<>>) ]_vars

\* ------------------------------------------------------------------ C23
\* C23: in the display, when fewer than n bytes are in the port at the moment
\* CHUNK:n is handled, the chunk read waits for all n bytes (or for the port
\* to close); while the port is open it never appends fewer than n bytes for
\* the chunk and goes back to reading lines in the middle of the payload.
C23_ChunkReadWaitsForAll ==
  \A c \in 1..Len(ch_log) :
    (running /\ ch_log[c].n > 0) => ch_log[c].got = ch_log[c].n

\* ------------------------------------------------------------------ C24
\* C24: both wired receivers read the header FRAME_START:a:b:c as the wire
\* format has it, expected size a, width b, height c, so that the same header
\* line gives the same three values in the display and in the tester.  Here:
\* once the tester has processed a header line, its three fields hold what
\* the camera wrote (and what the display takes from that line).
C24_TesterReadsHeaderAsWire ==
  \A it \in PayloadItems :
    (/\ it.kind = "header"
     /\ taken # <<>>
     /\ taken[Len(taken)] = [type |-> "TEXT", data |-> SubSeq(it.bytes, 1, Len(it.bytes) - 1)]) =>
      /\ expected_frame_size = it.size
      /\ frame_width = it.w
      /\ frame_height = it.h
      /\ expected_frame_size = ParseHeader(taken[Len(taken)].data).size.v
      /\ frame_width = ParseHeader(taken[Len(taken)].data).width.v
      /\ frame_height = ParseHeader(taken[Len(taken)].data).height.v

\* ------------------------------------------------------------------ C25
\* The FRAME_END records of a buffer of exactly the declared size that did
\* not decode.
FailedDecodes ==
  {n \in 1..Len(fe_log) :
     fe_log[n].recv /\ fe_log[n].blen = fe_log[n].size /\ ~fe_log[n].ok}

\* C25: in the display, when FRAME_END arrives with a buffer of exactly the
\* declared size whose payload does not decode (no image, or an exception),
\* no frame is emitted: current_frame and frame_count stay as they were, the
\* reader loop goes on, and the reassembler is idle afterwards.
C25_FailedDecodeEmitsNothing ==
  /\ \A n \in FailedDecodes :
       /\ fe_log[n].called
       /\ fe_log[n].cf1 = fe_log[n].cf0
       /\ fe_log[n].fc1 = fe_log[n].fc0
       /\ fe_log[n].w1 = fe_log[n].w0
       /\ fe_log[n].recv1 = FALSE
  /\ pc \in {"init", "line", "chunk", "term"}

\* A frame of the declared size failed to decode, and the reader has since
\* processed the header of the next frame.
C25_Witness ==
  \E n \in FailedDecodes :
    /\ fe_log[n].blen > 0
    /\ \E m \in 1..Len(fs_log) : fs_log[m].i > fe_log[n].i /\ receiving_frame

\* ------------------------------------------------------------------ C26
\* The lines of no recognized form, as the camera wrote them.
UnknownLines ==
  {SubSeq(it.bytes, 1, Len(it.bytes) - 1) : it \in {d \in DirectItems : d.id \in {"l_word", "l_near"}}}

\* C26: in ESP32CamTester.process_data a line that matches none of the
\* recognized forms (CAMERA_READY, NO_OBJECT, OBJECT_DETECTED:, ERROR:) is
\* never fatal: it leaves last_detection and detection_history unchanged, and
\* later lines are still processed.
C26_UnknownLineChangesNothing ==
  [][ (LineReaderProcess /\ Head(data_queue) \in UnknownLines) =>
        (UNCHANGED <<last_detection, detection_history>> /\ running' /\ pc' = "run") ]_vars

\* An unknown line was processed with a detection in place, the detection is
\* still there, and a later detection has been processed as well.
C26_Witness ==
  /\ Len(processed) >= 3
  /\ processed[Len(processed) - 1] \in UnknownLines
  /\ StartsWith(processed[Len(processed)], W_OBJECT_DETECTED)
  /\ Len(detection_history) = 2
  /\ last_detection # NoDetection

\* ------------------------------------------------------------------ C28
\* The letter of a zone command, as the Arduino sketch expects it.
ZoneLetter(command) ==
  CASE command = "Move Left" -> <<"L">>
    [] command = "Move Right" -> <<"R">>
    [] command = "Stay" -> <<"S">>
    [] OTHER -> <<>>

\* The command of the zone the last cycle saw, by thirds of the frame width.
ZoneSeen ==
  IF ~seen.object THEN "Stay"
  ELSE IF 3 * seen.x < seen.w THEN "Move Left"
  ELSE IF 3 * seen.x > 2 * seen.w THEN "Move Right"
  ELSE "Stay"

\* C28: each forwarded command goes through the fixed table Move Left -> L,
\* Stay -> S, Move Right -> R. A forward with the port open (and the write not
\* failing) writes exactly one byte, the one of the classified zone; a cycle
\* that forwards nothing writes nothing; a command outside the table and a
\* call without an open port write nothing.
C28_ForwardWritesZoneLetter ==
  /\ (arduino_tx.called /\ arduino_tx.open /\ ~arduino_tx.error) =>
       arduino_tx.bytes = ZoneLetter(arduino_tx.command)
  /\ (arduino_tx.called /\ ~arduino_tx.open) => arduino_tx.bytes = <<>>
  /\ (arduino_tx.from = "loop") => (seen.sent /\ arduino_tx.command = ZoneSeen)
  /\ (arduino_tx.from = "loop" /\ looping) => arduino_tx.open = (arduino = "open")
  /\ (looping /\ cycles > 0 /\ seen.sent) => arduino_tx.from = "loop"
  /\ (looping /\ cycles > 0 /\ ~seen.sent) => arduino_tx = NoTx
  /\ Len(arduino_tx.bytes) <= 1

\* A cycle that saw an object in the right third forwarded with the port open
\* and R was written.
C28_Witness ==
  /\ looping
  /\ seen.sent
  /\ seen.object
  /\ 3 * seen.x > 2 * seen.w
  /\ arduino = "open"
  /\ arduino_tx.bytes = <<"R">>

\* ------------------------------------------------------------------ C27
\* C27: the handoff between the reader thread and the main loop is bounded:
\* the tokens enqueued and not yet taken never exceed a fixed capacity. Stated
\* against the lines the camera sends: however many it sends, the queue never
\* holds as many tokens as that.
C27_HandoffIsBounded == Len(data_queue) < MaxTesterSend

\* ------------------------------------------------------------------ C29
\* C29: no segment the reader tokenized after enqueuing a FRAME_START line is
\* dropped because the main loop had not yet processed that FRAME_START.
C29_NoSegmentDroppedByRace == ~dropped

\* ------------------------------------------------------------------ C30
\* C30: the main loop takes the tokens the reader enqueued in the order they
\* were enqueued, each exactly once: what was taken, followed by what is still
\* queued, is what was enqueued.
C30_HandoffIsFifo == enq = taken \o data_queue

\* Three tokens were taken while a fourth, different from the first, waits.
C30_Witness ==
  /\ Len(taken) >= 3
  /\ data_queue # <<>>
  /\ taken[1] # taken[2]
  /\ Head(data_queue) # taken[1]

\* ------------------------------------------------------------------ C31
\* The buffer holds no byte that a chunk read appended while no frame was in
\* progress.
NoStrayByte == \A k \in 1..Len(buf_src) : buf_src[k] # 0

\* C31: bytes read for a CHUNK:n line that arrives while no frame is in
\* progress (before any FRAME_START, or after a FRAME_END) never appear in an
\* emitted frame: while a frame is in progress the buffer holds none of them,
\* and a step that emits a frame emits a buffer without them.
C31_StrayChunkNeverEmitted ==
  /\ [](receiving_frame => NoStrayByte)
  /\ [][ frame_count' # frame_count =>
           (NoStrayByte /\ current_frame' = Image(frame_buffer)) ]_vars

\* A chunk was read before any FRAME_START, and the frame sent after it was
\* emitted with its own two bytes only.
C31_Witness ==
  /\ Len(items) >= 4
  /\ items[1] = "ch_na"
  /\ Len(ch_log) >= 2
  /\ ch_log[1].got = 2
  /\ frame_count = 1
  /\ current_frame = Image(<<NL, "a">>)

\* ------------------------------------------------------------------ C32
\* The last forward of the loop wrote nothing: no port, or the write raised.
ForwardFailed == arduino_tx.from = "loop" /\ arduino_tx.bytes = <<>>

\* C32: after every cycle 0 <= command_delay <= 10 and last_command is the
\* command of the most recent cycle that attempted a forward, also when the
\* Arduino is not connected or the write raised; a command whose transmission
\* failed is not sent again before the delay has run out or the command has
\* changed.
C32_FailedForwardNotRetried ==
  /\ []((looping /\ cycles > 0) =>
          /\ 0 <= command_delay /\ command_delay <= 10
          /\ seen.sent => (last_command = seen.command /\ command_delay = 10))
  /\ [][ (looping /\ looping') =>
           /\ ~seen'.sent => (last_command' = last_command /\ arduino_tx' = NoTx)
           /\ (ForwardFailed /\ seen'.command = last_command /\ command_delay > 0) =>
                ~seen'.sent ]_vars

\* A forward found the port open and the write raised; the next cycle saw the
\* same command and sent nothing.
C32_Witness ==
  /\ looping
  /\ cycles >= 2
  /\ arduino = "open"
  /\ ~seen.sent
  /\ seen.command = last_command
  /\ seen.delay0 = 10
  /\ seen.tx0.from = "loop"
  /\ seen.tx0.error
  /\ seen.tx0.command = last_command
  /\ arduino_tx = NoTx

\* ------------------------------------------------------------------ C33
\* The FRAME_END lines processed so far that found a frame in progress, a
\* buffer of the declared size and a decoder that succeeded.
GoodFrameEnds ==
  {n \in 1..Len(fe_log) :
     fe_log[n].recv /\ fe_log[n].blen = fe_log[n].size /\ fe_log[n].ok}

\* C33: frame_count never decreases, always equals the number of FRAME_END
\* lines processed so far that found receiving_frame true, a buffer length
\* equal to the declared size and a successful decode, and changes by at most
\* 1 per processed line.
C33_FrameCountCountsGoodEnds ==
  /\ [](frame_count = Cardinality(GoodFrameEnds))
  /\ [][ frame_count' \in {frame_count, frame_count + 1} ]_vars

\* A FRAME_END line was counted, and another one, which found no frame in
\* progress, a buffer of the wrong size or a failing decoder, was not.
C33_Witness ==
  /\ frame_count = 1
  /\ Len(fe_log) >= 2
  /\ \E n \in 1..Len(fe_log) : n \notin GoodFrameEnds
  /\ \E n \in 1..Len(fe_log) : fe_log[n].fc1 = fe_log[n].fc0 + 1

\* ------------------------------------------------------------------ C34
\* C34: in ESP32CamWiredDisplay and in ESP32CamWiredTester a FRAME_END line
\* processed while no frame is in progress (receiving_frame false) changes
\* nothing: no frame is emitted, and current_frame, frame_count, frame_buffer
\* and receiving_frame are unchanged.
C34_IdleFrameEndChangesNothing ==
  [][ (Len(fe_log') = Len(fe_log) + 1 /\ ~receiving_frame) =>
        UNCHANGED <<current_frame, frame_count, frame_buffer, receiving_frame, writes>> ]_vars

\* The first line processed was a FRAME_END, with no frame in progress; the
\* frame that followed it was emitted.
C34_Witness ==
  /\ Len(fe_log) >= 2
  /\ ~fe_log[1].recv
  /\ fe_log[1].cf1 = fe_log[1].cf0
  /\ fe_log[1].fc1 = 0
  /\ frame_count = 1

\* ------------------------------------------------------------------ C35
\* The zone and the command of a detection as functions of x alone, by the
\* thirds of the reference width 320 (106 2/3 and 213 1/3).
ZoneOfX(x) == IF x <= 106 THEN "LEFT" ELSE IF x >= 214 THEN "RIGHT" ELSE "CENTER"
CommandOfX(x) == IF x <= 106 THEN "Move Left" ELSE IF x >= 214 THEN "Move Right" ELSE "Stay"

\* C35: the zone and the command computed for an OBJECT_DETECTED line depend
\* only on its x field: whatever FRAME_START headers were processed before it
\* (frame_width, frame_height, expected size) and whatever the state of
\* reassembly, the detection stored has the zone and the command that x has
\* against the fixed width 320, so two runs that process the same line store
\* the same zone and command.
C35_ZoneDependsOnXOnly ==
  current_detection # NoDetection =>
    /\ current_detection.zone = ZoneOfX(current_detection.x)
    /\ current_detection.command = CommandOfX(current_detection.x)

\* The line just processed was the detection at x = 107, taken while a frame
\* declared 640 wide was being reassembled with bytes in its buffer.
C35_Witness ==
  /\ taken # <<>>
  /\ StartsWith(taken[Len(taken)].data, W_OBJECT_DETECTED)
  /\ current_detection # NoDetection
  /\ current_detection.x = 107
  /\ current_detection.zone = "CENTER"
  /\ frame_width = 640
  /\ receiving_frame
  /\ frame_buffer # <<>>

====
